---- MODULE Spec2Model ----
(***************************************************************************)
(* Model of mermaid_drawio.py: parse_mermaid, compute_layout and           *)
(* mermaid_to_drawio.  Texts, lines and node ids are strings; the string   *)
(* primitives of Python used by the parser (splitlines, strip, startswith, *)
(* split, in, upper, str, <) are defined character by character.           *)
(***************************************************************************)
EXTENDS Integers, Sequences, FiniteSets, TLC

VARIABLES text, lines, idx, nodes, edges, direction,
          iter, adj, indeg, queue, depth, pushed, coords,
          doc, pc, call, prev

vars == <<text, lines, idx, nodes, edges, direction,
          iter, adj, indeg, queue, depth, pushed, coords,
          doc, pc, call, prev>>

parseVars == <<lines, idx, nodes, edges, direction>>
layoutVars == <<iter, adj, indeg, queue, depth, pushed, coords>>

(***************************************************************************)
(* Bounds of the explored inputs.                                          *)
(***************************************************************************)
MaxLines == 3
MaxLinesTwice == 3

(***************************************************************************)
(* Python str primitives.                                                  *)
(***************************************************************************)
Char(s, i) == SubSeq(s, i, i)

SetMin(S) == CHOOSE m \in S : \A k \in S : m <= k
SetMax(S) == CHOOSE m \in S : \A k \in S : m >= k

\* code points 32..95 and 97..126
PrintableLow == " !\"#$%&'()*+,-./0123456789:;<=>?@ABCDEFGHIJKLMNOPQRSTUVWXYZ[\\]^_"
PrintableHigh == "abcdefghijklmnopqrstuvwxyz{|}~"
Lowers == "abcdefghijklmnopqrstuvwxyz"
Uppers == "ABCDEFGHIJKLMNOPQRSTUVWXYZ"
Digits == "0123456789"

\* first index of the one-character string c in s, 0 when absent
IndexOf(s, c) ==
    LET hits == {i \in 1..Len(s) : Char(s, i) = c}
    IN  IF hits = {} THEN 0 ELSE SetMin(hits)

\* ord(c) for the characters of the modelled alphabet
Ord(c) ==
    IF c = "\t" THEN 9
    ELSE IF c = "\n" THEN 10
    ELSE IF c = "\r" THEN 13
    ELSE IF IndexOf(PrintableLow, c) > 0 THEN 31 + IndexOf(PrintableLow, c)
    ELSE 96 + IndexOf(PrintableHigh, c)

IsSpace(c) == c \in {" ", "\t", "\n", "\r", "\f"}

\* str.strip()
Strip(s) ==
    LET keep == {i \in 1..Len(s) : ~IsSpace(Char(s, i))}
    IN  IF keep = {} THEN "" ELSE SubSeq(s, SetMin(keep), SetMax(keep))

\* str.find(sub) + 1 : position of the first occurrence, 0 when absent
Find(s, sub) ==
    LET hits == {i \in 1..(Len(s) - Len(sub) + 1) :
                    SubSeq(s, i, i + Len(sub) - 1) = sub}
    IN  IF hits = {} THEN 0 ELSE SetMin(hits)

\* sub in s
Contains(s, sub) == Find(s, sub) > 0

\* str.startswith(p)
StartsWith(s, p) == Len(s) >= Len(p) /\ SubSeq(s, 1, Len(p)) = p

\* s.split(sep, 1) when sep occurs in s
SplitFirst(s, sep) ==
    LET i == Find(s, sep)
    IN  <<SubSeq(s, 1, i - 1), SubSeq(s, i + Len(sep), Len(s))>>

\* s.split() : split on runs of whitespace
RECURSIVE SplitWs(_)
SplitWs(s) ==
    LET t == Strip(s)
        sp == {i \in 1..Len(t) : IsSpace(Char(t, i))}
    IN  IF t = "" THEN <<>>
        ELSE IF sp = {} THEN <<t>>
        ELSE <<SubSeq(t, 1, SetMin(sp) - 1)>>
             \o SplitWs(SubSeq(t, SetMin(sp), Len(t)))

\* str.upper()
RECURSIVE Upper(_)
Upper(s) ==
    IF s = "" THEN ""
    ELSE LET c == Char(s, 1)
             k == IndexOf(Lowers, c)
         IN  (IF k = 0 THEN c ELSE Char(Uppers, k))
             \o Upper(SubSeq(s, 2, Len(s)))

\* str.splitlines() for the line boundary "\n"
RECURSIVE SplitLines(_)
SplitLines(s) ==
    IF s = "" THEN <<>>
    ELSE LET i == Find(s, "\n")
         IN  IF i = 0 THEN <<s>>
             ELSE <<SubSeq(s, 1, i - 1)>> \o SplitLines(SubSeq(s, i + 1, Len(s)))

\* str(n) for n >= 0
RECURSIVE Str(_)
Str(n) ==
    IF n < 10 THEN Char(Digits, n + 1)
    ELSE Str(n \div 10) \o Char(Digits, (n % 10) + 1)

\* a < b on str (code point order)
RECURSIVE StrLess(_, _)
StrLess(a, b) ==
    IF b = "" THEN FALSE
    ELSE IF a = "" THEN TRUE
    ELSE IF Char(a, 1) = Char(b, 1)
         THEN StrLess(SubSeq(a, 2, Len(a)), SubSeq(b, 2, Len(b)))
         ELSE Ord(Char(a, 1)) < Ord(Char(b, 1))

(***************************************************************************)
(* parse_mermaid                                                           *)
(***************************************************************************)
\* which branch of the if / elif / else chain handles a stripped line
ClassifyEdgeFirst(line) ==
    IF line = "" THEN "blank"
    ELSE IF Contains(line, "-->") THEN "edge"
    ELSE IF StartsWith(line, "graph ") THEN "graph"
    ELSE "node"

Classify(line) ==
    IF line = "" THEN "blank"
    ELSE IF StartsWith(line, "graph ") THEN "graph"
    ELSE IF Contains(line, "-->") THEN "edge"
    ELSE "node"

\* the direction after a "graph " line
ParseDirection(line, dir) ==
    LET parts == SplitWs(line)
    IN  IF Len(parts) >= 2 THEN Upper(parts[2]) ELSE dir

\* (source_id, target_id, edge_label) of an arrow line
ParseEdge(line) ==
    LET lr == SplitFirst(line, "-->")
        left == Strip(lr[1])
        right == Strip(lr[2])
        nl == SplitFirst(left, "--")
    IN  IF Contains(left, "--")
        THEN <<Strip(nl[1]), right, Strip(nl[2])>>
        ELSE <<left, right, "">>

\* nodes.add(source_id); nodes.add(target_id)
AddEndpointsSourceOnly(ns, e) == ns \cup {e[1]}

AddEndpoints(ns, e) == ns \cup {e[1], e[2]}

ParseLine ==
    /\ pc = "parse"
    /\ idx <= Len(lines)
    /\ LET line == Strip(lines[idx])
           kind == Classify(line)
       IN  /\ idx' = idx + 1
           /\ direction' = IF kind = "graph"
                           THEN ParseDirection(line, direction)
                           ELSE direction
           /\ nodes' = IF kind = "edge" THEN AddEndpoints(nodes, ParseEdge(line))
                       ELSE IF kind = "node" THEN nodes \cup {line}
                       ELSE nodes
           /\ edges' = IF kind = "edge" THEN Append(edges, ParseEdge(line))
                       ELSE edges
    /\ UNCHANGED <<text, lines, pc, call, prev, doc>>
    /\ UNCHANGED layoutVars

(***************************************************************************)
(* compute_layout                                                          *)
(***************************************************************************)
\* the orders in which a set can be iterated
RECURSIVE Perms(_)
Perms(S) ==
    IF S = {} THEN {<<>>}
    ELSE UNION {{<<x>> \o p : p \in Perms(S \ {x})} : x \in S}

\* adj[s] : targets of the edges leaving s, in edge order
BuildAdj(ns, es) ==
    [s \in ns |->
        LET out == SelectSeq(es, LAMBDA e : e[1] = s)
        IN  [i \in 1..Len(out) |-> out[i][2]]]

\* indeg[n] : number of edges entering n
BuildIndeg(ns, es) ==
    [n \in ns |-> Cardinality({i \in 1..Len(es) : es[i][2] = n})]

\* deque(n for n in indeg if indeg[n] == 0)
SeedAtMostOne(order, ind) == SelectSeq(order, LAMBDA n : ind[n] <= 1)

Seed(order, ind) == SelectSeq(order, LAMBDA n : ind[n] = 0)

\* queue.popleft()
PopRight(q) == [current |-> q[Len(q)], rest |-> SubSeq(q, 1, Len(q) - 1)]

PopLeft(q) == [current |-> Head(q), rest |-> Tail(q)]

\* one iteration of "for child in adj[current]"
VisitAlwaysDepth(child, current, st) ==
    LET ind == [st.indeg EXCEPT ![child] = @ - 1]
        dep == [st.depth EXCEPT ![child] = st.depth[current] + 1]
    IN  IF ind[child] = 0
        THEN [indeg |-> ind, depth |-> dep,
              queue |-> Append(st.queue, child),
              pushed |-> st.pushed \cup {child}]
        ELSE [st EXCEPT !.indeg = ind, !.depth = dep]

Visit(child, current, st) ==
    LET ind == [st.indeg EXCEPT ![child] = @ - 1]
    IN  IF ind[child] = 0
        THEN [indeg |-> ind,
              depth |-> [st.depth EXCEPT ![child] = st.depth[current] + 1],
              queue |-> Append(st.queue, child),
              pushed |-> st.pushed \cup {child}]
        ELSE [st EXCEPT !.indeg = ind]

RECURSIVE Relax(_, _, _)
Relax(children, current, st) ==
    IF children = <<>> THEN st
    ELSE Relax(Tail(children), current, Visit(Head(children), current, st))

\* the sort key (depth[x], x)
KeyLessDepthOnly(a, b, d) == d[a] < d[b]

KeyLess(a, b, d) == d[a] < d[b] \/ (d[a] = d[b] /\ StrLess(a, b))

\* stable insertion of n into a sorted sequence
RECURSIVE InsertSorted(_, _, _)
InsertSorted(sorted, n, d) ==
    IF sorted = <<>> THEN <<n>>
    ELSE IF KeyLess(n, Head(sorted), d) THEN <<n>> \o sorted
    ELSE <<Head(sorted)>> \o InsertSorted(Tail(sorted), n, d)

\* sorted(nodes, key=lambda x: (depth[x], x))
RECURSIVE SortedNodes(_, _)
SortedNodes(order, d) ==
    IF order = <<>> THEN <<>>
    ELSE InsertSorted(SortedNodes(SubSeq(order, 1, Len(order) - 1), d),
                      order[Len(order)], d)

\* layer_counts[d] of a defaultdict(int)
LayerCount(lc, d) == IF d \in DOMAIN lc THEN lc[d] ELSE 0

\* layer_counts[d] += 1
BumpNone(lc, d) == (d :> LayerCount(lc, d)) @@ lc

Bump(lc, d) == (d :> LayerCount(lc, d) + 1) @@ lc

\* the (x, y) of a node of depth d placed offset-th in its layer
PositionSwapped(d, offset, dir) ==
    IF dir = "LR" THEN <<offset * 200, d * 200>> ELSE <<d * 200, offset * 120>>

Position(d, offset, dir) ==
    IF dir = "LR" THEN <<d * 200, offset * 120>> ELSE <<offset * 200, d * 200>>

RECURSIVE Place(_, _, _, _, _)
Place(sorted, d, dir, lc, co) ==
    IF sorted = <<>> THEN co
    ELSE LET n == Head(sorted)
             offset == LayerCount(lc, d[n])
         IN  Place(Tail(sorted), d, dir, Bump(lc, d[n]),
                   (n :> Position(d[n], offset, dir)) @@ co)

LayoutBegin ==
    /\ pc = "parse"
    /\ idx > Len(lines)
    /\ IF nodes = {}
       THEN /\ pc' = "build"
            /\ coords' = <<>>
            /\ UNCHANGED <<iter, adj, indeg, queue, depth, pushed>>
       ELSE IF \E i \in 1..Len(edges) : edges[i][2] \notin nodes
       THEN /\ pc' = "error"
            /\ UNCHANGED layoutVars
       ELSE \E order \in Perms(nodes) :
            /\ iter' = order
            /\ adj' = BuildAdj(nodes, edges)
            /\ indeg' = BuildIndeg(nodes, edges)
            /\ queue' = Seed(order, indeg')
            /\ pushed' = {queue'[i] : i \in 1..Len(queue')}
            /\ depth' = [n \in nodes |-> 0]
            /\ coords' = <<>>
            /\ pc' = "bfs"
    /\ UNCHANGED <<text, call, prev, doc>>
    /\ UNCHANGED parseVars

LayoutPop ==
    /\ pc = "bfs"
    /\ queue # <<>>
    /\ LET p == PopLeft(queue)
           st == Relax(adj[p.current], p.current,
                       [indeg |-> indeg, depth |-> depth,
                        queue |-> p.rest, pushed |-> pushed])
       IN  /\ indeg' = st.indeg
           /\ depth' = st.depth
           /\ queue' = st.queue
           /\ pushed' = st.pushed
    /\ UNCHANGED <<text, call, prev, doc, pc, iter, adj, coords>>
    /\ UNCHANGED parseVars

LayoutPlace ==
    /\ pc = "bfs"
    /\ queue = <<>>
    /\ coords' = Place(SortedNodes(iter, depth), depth, direction, <<>>, <<>>)
    /\ pc' = "build"
    /\ UNCHANGED <<text, call, prev, doc, iter, adj, indeg, queue, depth, pushed>>
    /\ UNCHANGED parseVars

(***************************************************************************)
(* mermaid_to_drawio                                                       *)
(***************************************************************************)
NodeStyle == "rounded=1;whiteSpace=wrap;html=1;"
EdgeStyle == "edgeStyle=orthogonalEdgeStyle;rounded=0;orthogonalLoop=1;jettySize=auto;html=1;"

\* coords.get(node_str, (0, 0))
CoordsGet(co, n) == IF n \in DOMAIN co THEN co[n] ELSE <<0, 0>>

VertexCell(cell_id, node_str, co) ==
    [id |-> cell_id, value |-> node_str, style |-> NodeStyle,
     parent |-> "1", vertex |-> "1",
     geometry |-> [as |-> "geometry",
                   x |-> Str(CoordsGet(co, node_str)[1]),
                   y |-> Str(CoordsGet(co, node_str)[2]),
                   width |-> "120", height |-> "60"]]

EdgeCell(edge_id, e, map) ==
    [id |-> edge_id, value |-> e[3], style |-> EdgeStyle,
     parent |-> "1", source |-> map[e[1]], target |-> map[e[2]], edge |-> "1",
     geometry |-> [as |-> "geometry", relative |-> "1"]]

\* cell_counter += 1
CounterStuck(cell_counter) == cell_counter

CounterNext(cell_counter) == cell_counter + 1

\* "for node_str in nodes": b = [cell_counter, node_id_map, cells]
RECURSIVE AddNodeCells(_, _, _)
AddNodeCells(order, co, b) ==
    IF order = <<>> THEN b
    ELSE LET node_str == Head(order)
             cell_id == Str(b.cell_counter)
         IN  AddNodeCells(Tail(order), co,
                 [cell_counter |-> CounterNext(b.cell_counter),
                  node_id_map |-> (node_str :> cell_id) @@ b.node_id_map,
                  cells |-> Append(b.cells, VertexCell(cell_id, node_str, co)),
                  failed |-> FALSE])

\* "for (s, t, lbl) in edges"; failed is the KeyError of node_id_map[s]
RECURSIVE AddEdgeCells(_, _)
AddEdgeCells(es, b) ==
    IF es = <<>> \/ b.failed THEN b
    ELSE LET e == Head(es)
             edge_id == Str(b.cell_counter)
         IN  IF e[1] \notin DOMAIN b.node_id_map \/ e[2] \notin DOMAIN b.node_id_map
             THEN [b EXCEPT !.failed = TRUE]
             ELSE AddEdgeCells(Tail(es),
                     [b EXCEPT !.cell_counter = CounterNext(b.cell_counter),
                               !.cells = Append(b.cells,
                                                EdgeCell(edge_id, e, b.node_id_map))])

\* the root element after the two cells of the default layer
DefaultLayer == <<[id |-> "0"], [id |-> "1", parent |-> "0"]>>

BuildDocument(order, es, co) ==
    AddEdgeCells(es,
        AddNodeCells(order, co,
            [cell_counter |-> 2, node_id_map |-> <<>>,
             cells |-> DefaultLayer, failed |-> FALSE]))

Serialize ==
    /\ pc = "build"
    /\ LET b == BuildDocument(iter, edges, coords)
       IN  IF b.failed
           THEN pc' = "error" /\ doc' = doc
           ELSE pc' = "done" /\ doc' = b.cells
    /\ UNCHANGED <<text, call, prev>>
    /\ UNCHANGED parseVars
    /\ UNCHANGED layoutVars

\* a second call of mermaid_to_drawio on the same text
SecondCall ==
    /\ pc = "done"
    /\ call = 1
    /\ call' = 2
    /\ prev' = [depth |-> depth, coords |-> coords, doc |-> doc]
    /\ lines' = SplitLines(text)
    /\ idx' = 1
    /\ nodes' = {}
    /\ edges' = <<>>
    /\ direction' = "TD"
    /\ iter' = <<>>
    /\ adj' = <<>>
    /\ indeg' = <<>>
    /\ queue' = <<>>
    /\ depth' = <<>>
    /\ pushed' = {}
    /\ coords' = <<>>
    /\ doc' = <<>>
    /\ pc' = "parse"
    /\ UNCHANGED text

(***************************************************************************)
(* Inputs.                                                                 *)
(***************************************************************************)
RECURSIVE JoinLines(_)
JoinLines(ls) ==
    IF ls = <<>> THEN ""
    ELSE IF Len(ls) = 1 THEN ls[1]
    ELSE ls[1] \o "\n" \o JoinLines(Tail(ls))

Texts(L, max) == {JoinLines(ls) : ls \in UNION {[1..k -> L] : k \in 0..max}}

InputLines ==
    {"graph LR", "graph bt", "graph A --> B", "", "  C ",
     "A -- yes --> B", "B-->C", "A --> C", "C --> A", "--> C"}

InputLinesTwice ==
    {"A --> B", "B --> D", "C --> D", "D --> A"}

InitWith(T) ==
    /\ text \in T
    /\ lines = SplitLines(text)
    /\ idx = 1
    /\ nodes = {}
    /\ edges = <<>>
    /\ direction = "TD"
    /\ iter = <<>>
    /\ adj = <<>>
    /\ indeg = <<>>
    /\ queue = <<>>
    /\ depth = <<>>
    /\ pushed = {}
    /\ coords = <<>>
    /\ doc = <<>>
    /\ pc = "parse"
    /\ call = 1
    /\ prev = [depth |-> <<>>, coords |-> <<>>, doc |-> <<>>]

Init == InitWith(Texts(InputLines, MaxLines))

InitTwice == InitWith(Texts(InputLinesTwice, MaxLinesTwice))

Next == ParseLine \/ LayoutBegin \/ LayoutPop \/ LayoutPlace \/ Serialize

NextTwice == Next \/ SecondCall

Spec == Init /\ [][Next]_vars

SpecTwice == InitTwice /\ [][NextTwice]_vars

(***************************************************************************)
(* Graph notions used by the properties.                                   *)
(***************************************************************************)
EdgeIdx == 1..Len(edges)
Succs(S) == {edges[i][2] : i \in {j \in EdgeIdx : edges[j][1] \in S}}
Preds(n) == {edges[i][1] : i \in {j \in EdgeIdx : edges[j][2] = n}}

RECURSIVE Closure(_)
Closure(S) == IF S \cup Succs(S) = S THEN S ELSE Closure(S \cup Succs(S))

\* the nodes reachable from n along one edge or more
ReachPlus(n) == Closure(Succs({n}))

HasCycle == \E n \in nodes : n \in ReachPlus(n)

\* edges of the longest / shortest path from an indegree-zero node (acyclic graphs)
RECURSIVE LongestDist(_)
LongestDist(n) ==
    IF Preds(n) = {} THEN 0
    ELSE 1 + SetMax({LongestDist(p) : p \in Preds(n)})

RECURSIVE ShortestDist(_)
ShortestDist(n) ==
    IF Preds(n) = {} THEN 0
    ELSE 1 + SetMin({ShortestDist(p) : p \in Preds(n)})

\* the frontier loop of compute_layout has finished on a non-empty node set
LoopDone == pc \in {"build", "done"} /\ nodes # {}

(***************************************************************************)
(* C1: parsing and the stages after it never fail, and after every         *)
(* processed line every edge's source and target is in the node set.       *)
(***************************************************************************)
C1_EndpointsRegistered ==
    /\ pc # "error"
    /\ \A i \in EdgeIdx : edges[i][1] \in nodes /\ edges[i][2] \in nodes

C1_Witness ==
    /\ pc = "done"
    /\ \E i \in EdgeIdx : edges[i][1] = ""

(***************************************************************************)
(* C2: two calls on the same text produce the same document, whatever      *)
(* order the node set is iterated in.                                      *)
(***************************************************************************)
C2_SameDocument ==
    (call = 2 /\ pc = "done") => doc = prev.doc

C4_TopologicalDepth ==
    (LoopDone /\ ~HasCycle) =>
        \A i \in EdgeIdx : depth[edges[i][2]] >= depth[edges[i][1]] + 1

C4_Witness ==
    /\ pc = "done"
    /\ ~HasCycle
    /\ \E i, j \in EdgeIdx :
          i # j /\ edges[i][1] = edges[j][1] /\ edges[i][2] = edges[j][2]
    /\ \E n \in nodes : depth[n] >= 2

(***************************************************************************)
(* C5 as stated: on an acyclic graph the depth of a node is its distance   *)
(* from the nearest indegree-zero ancestor.                                *)
(***************************************************************************)
C5_NearestAncestor ==
    (LoopDone /\ ~HasCycle) => \A n \in nodes : depth[n] = ShortestDist(n)

(***************************************************************************)
(* C5 amended: on an acyclic graph the depth of a node is the length of    *)
(* the longest path that leads to it from an indegree-zero node.           *)
(***************************************************************************)
C5_LongestPath ==
    (LoopDone /\ ~HasCycle) => \A n \in nodes : depth[n] = LongestDist(n)

C5_Witness ==
    /\ pc = "done"
    /\ ~HasCycle
    /\ \E n \in nodes : ShortestDist(n) < LongestDist(n)

(***************************************************************************)
(* C6: with direction "LR" a node is at (depth * 200, k * 120), with any   *)
(* other direction at (k * 200, depth * 200), k being the number of nodes  *)
(* of the same depth that precede it in code point order.                  *)
(***************************************************************************)
Rank(n) == Cardinality({m \in nodes : depth[m] = depth[n] /\ StrLess(m, n)})

C6_DirectionAxes ==
    LoopDone =>
        \A n \in nodes :
            IF direction = "LR"
            THEN coords[n] = <<depth[n] * 200, Rank(n) * 120>>
            ELSE coords[n] = <<Rank(n) * 200, depth[n] * 200>>

C6_Witness ==
    /\ pc = "done"
    /\ direction = "LR"
    /\ \E a, b \in nodes :
          /\ depth[a] = 0 /\ depth[b] = 0
          /\ coords[a][1] = coords[b][1]
          /\ coords[a][2] < coords[b][2]
    /\ \E n \in nodes : depth[n] > 0

(***************************************************************************)
(* C7: the document has the two layer cells, then one vertex cell per      *)
(* node, then one edge cell per edge in edge order; the ids are "0", "1",  *)
(* "2", ... and pairwise distinct; every edge cell's source and target is  *)
(* the id of the vertex cell of its endpoint; the lookup never fails.      *)
(***************************************************************************)
NumNodes == Cardinality(nodes)
VertexIdOf(n) == {doc[i].id : i \in {j \in 3..(2 + NumNodes) : doc[j].value = n}}

C7_DocumentShape ==
    /\ pc # "error"
    /\ pc = "done" =>
        /\ Len(doc) = 2 + NumNodes + Len(edges)
        /\ doc[1].id = "0" /\ doc[2].id = "1"
        /\ \A i \in 3..Len(doc) : doc[i].id = Str(i - 1)
        /\ \A i, j \in 1..Len(doc) : i # j => doc[i].id # doc[j].id
        /\ \A i \in 3..(2 + NumNodes) : "vertex" \in DOMAIN doc[i]
        /\ {doc[i].value : i \in 3..(2 + NumNodes)} = nodes
        /\ \A j \in EdgeIdx :
              LET c == doc[2 + NumNodes + j]
              IN  /\ "edge" \in DOMAIN c
                  /\ c.value = edges[j][3]
                  /\ VertexIdOf(edges[j][1]) = {c.source}
                  /\ VertexIdOf(edges[j][2]) = {c.target}

C7_Witness ==
    /\ pc = "done"
    /\ NumNodes >= 3
    /\ Len(edges) >= 2

(***************************************************************************)
(* C8: on a graph with a cycle or self-loop the layout does not fail, a    *)
(* node that was never pushed has depth 0, and when the loop has finished  *)
(* every node has a position and every node whose remaining in-degree is   *)
(* still positive was never pushed, has depth 0 and lies in layer 0.       *)
(***************************************************************************)
LayerAxis == IF direction = "LR" THEN 1 ELSE 2

IsGraphLine(l) == Len(l) >= 6 /\ SubSeq(l, 1, 6) = "graph "
IsArrowLine(l) == l # "" /\ ~IsGraphLine(l) /\ Contains(l, "-->")

C9_Step ==
    (pc = "parse" /\ idx' = idx + 1) =>
        LET l == Strip(lines[idx])
        IN  IF l = ""
            THEN nodes' = nodes /\ edges' = edges /\ direction' = direction
            ELSE IF IsGraphLine(l)
            THEN /\ nodes' = nodes /\ edges' = edges
                 /\ direction' = Upper(SplitWs(l)[2])
            ELSE IF Contains(l, "-->")
            THEN /\ Len(edges') = Len(edges) + 1
                 /\ SubSeq(edges', 1, Len(edges)) = edges
                 /\ nodes' = nodes \cup {edges'[Len(edges')][1], edges'[Len(edges')][2]}
                 /\ direction' = direction
            ELSE nodes' = nodes \cup {l} /\ edges' = edges /\ direction' = direction

C9_FirstMatchingCase ==
    /\ [][C9_Step]_vars
    /\ [](Len(edges) = Cardinality({i \in 1..(idx - 1) : IsArrowLine(Strip(lines[i]))}))

C9_Witness ==
    /\ pc = "done"
    /\ \E i \in 1..Len(lines) :
          IsGraphLine(Strip(lines[i])) /\ Contains(lines[i], "-->")
    /\ \E i, j \in EdgeIdx : i # j /\ edges[i] = edges[j]
    /\ direction = "A"

(***************************************************************************)
(* C10: the positions are defined exactly on the node set and no two       *)
(* nodes share a position.                                                 *)
(***************************************************************************)
C10_TotalInjective ==
    pc \in {"build", "done"} =>
        /\ DOMAIN coords = nodes
        /\ \A a, b \in nodes : a # b => coords[a] # coords[b]

C10_Witness ==
    /\ pc = "done"
    /\ \E a, b \in nodes : a # b /\ depth[a] = depth[b]
    /\ \E a, b \in nodes : depth[a] # depth[b]

====
